---- MODULE Spec2Model ----
(***************************************************************************)
(* A model of scripts/audit_docstrings.py, the docstring audit of the     *)
(* NWGraph headers.                                                        *)
(*                                                                         *)
(* Text is modelled as sequences of lexical tokens.  A line is a sequence  *)
(* of tokens, rendered with one space between neighbouring tokens; a file  *)
(* is a sequence of lines (content.split('\n')), rendered with one newline *)
(* between neighbouring lines.  The token " " is leading indentation, the  *)
(* token "\n" is the newline '\n'.join puts between lines, and "PAD" is a  *)
(* run of PadWidth filler characters that are neither whitespace, word     *)
(* characters, nor any of the markers the script looks for.  Every other   *)
(* token is its literal text.                                              *)
(*                                                                         *)
(* Every separator in the script's regular expressions is \s* or \s+, and  *)
(* neighbouring tokens are always separated by a space or a newline, so a  *)
(* pattern is matched against the whitespace-free token stream.            *)
(***************************************************************************)
EXTENDS Integers, Sequences, FiniteSets, TLC

VARIABLES
  \* audit_file
  content, readable, pc, audit, cur, pos,
  \* generate_report
  audits, rpc, ridx, report,
  \* extract_doxygen_comment
  lines, end_line, lpc, located,
  \* parse_comment_tags
  comment, tpc, tags,
  \* extract_function_params
  declaration, fpc, params

auditVars  == <<content, readable, pc, audit, cur, pos>>
reportVars == <<audits, rpc, ridx, report>>
locVars    == <<lines, end_line, lpc, located>>
tagVars    == <<comment, tpc, tags>>
paramVars  == <<declaration, fpc, params>>
vars       == <<auditVars, reportVars, locVars, tagVars, paramVars>>

----------------------------------------------------------------------------
(* Bounds of the model *)

\* longest line sequence handed to extract_doxygen_comment on its own
MaxLocLines == 4
\* longest comment (in tokens) handed to parse_comment_tags on its own
MaxComment == 6
\* most lines in an audited file
MaxLines == 3
\* most audits handed to generate_report
MaxFiles == 3
\* number of filler characters the token "PAD" stands for
PadWidth == 1990
\* longest declaration (in tokens) handed to extract_function_params
MaxDecl == 6

----------------------------------------------------------------------------
(* Tokens and strings *)

Range(s) == {s[k] : k \in 1..Len(s)}

Contains(s, t) == \E k \in 1..Len(s) : s[k] = t

Whitespace == {" ", "\n"}

\* tokens made of word characters only (\w+)
WordTokens == {"w", "a", "b", "Name", "void", "if", "else", "return", "sizeof",
               "class", "struct", "concept", "inline", "static", "constexpr",
               "auto", "bool", "int", "size_t"}

IsWord(t) == t \in WordTokens

\* str.strip(): leading and trailing whitespace removed
RECURSIVE LStrip(_)
LStrip(s) ==
  IF s # <<>> /\ Head(s) \in Whitespace THEN LStrip(Tail(s)) ELSE s

RECURSIVE RStrip(_)
RStrip(s) ==
  IF s # <<>> /\ s[Len(s)] \in Whitespace
  THEN RStrip(SubSeq(s, 1, Len(s) - 1)) ELSE s

Strip(s) == RStrip(LStrip(s))

\* s.startswith('///')
StartsWithDoc(s) == s # <<>> /\ Head(s) = "///"

\* '\n'.join(ls)
RECURSIVE Join(_)
Join(ls) ==
  IF ls = <<>> THEN <<>>
  ELSE IF Len(ls) = 1 THEN ls[1]
  ELSE ls[1] \o <<"\n">> \o Join(Tail(ls))

\* the whitespace-free token stream of a text
NoSpace(s) == SelectSeq(s, LAMBDA t : t \notin Whitespace)

----------------------------------------------------------------------------
(* extract_doxygen_comment(lines, end_line).  Line indices are 0-based as  *)
(* in the script: line i of the script is ls[i + 1] here.                  *)

None == [text |-> <<>>, start |-> -1, end |-> -1]

\* while i >= 0 and lines[i].strip() == '': i -= 1
RECURSIVE SkipBlank(_, _)
SkipBlank(ls, i) ==
  IF i >= 0 /\ Strip(ls[i + 1]) = <<>> THEN SkipBlank(ls, i - 1) ELSE i

\* while i >= 0 and lines[i].strip().startswith('///'): ...; i -= 1
RECURSIVE SkipDocWrongStop(_, _)
SkipDocWrongStop(ls, i) ==
  IF i >= 1 /\ StartsWithDoc(Strip(ls[i + 1]))
  THEN SkipDocWrongStop(ls, i - 1) ELSE i

RECURSIVE SkipDoc(_, _)
SkipDoc(ls, i) ==
  IF i >= 0 /\ StartsWithDoc(Strip(ls[i + 1])) THEN SkipDoc(ls, i - 1) ELSE i

\* the first line of the file that contains '/**', not the nearest one
FindOpenFarthest(ls, i) ==
  LET S == {k \in 0..i : Contains(ls[k + 1], "/**")}
  IN IF S = {} THEN -1 ELSE CHOOSE k \in S : \A j \in S : k <= j

\* while i >= 0: if '/**' in lines[i]: return ...; i -= 1
RECURSIVE FindOpen(_, _)
FindOpen(ls, i) ==
  IF i < 0 THEN -1
  ELSE IF Contains(ls[i + 1], "/**") THEN i
  ELSE FindOpen(ls, i - 1)

extract_doxygen_comment(ls, e) ==
  LET i0 == SkipBlank(ls, e - 1) IN
  IF i0 < 0 THEN None
  ELSE
    LET comment_end == i0
        i1 == SkipDoc(ls, i0)
    IN
    IF i1 < comment_end
    THEN [text  |-> Join(SubSeq(ls, i1 + 2, comment_end + 1)),
          start |-> i1 + 1, end |-> comment_end]
    ELSE IF Contains(ls[comment_end + 1], "*/")
    THEN LET j == FindOpen(ls, i1) IN
         IF j >= 0
         THEN [text  |-> Join(SubSeq(ls, j + 1, comment_end + 1)),
               start |-> j, end |-> comment_end]
         ELSE None
    ELSE None

----------------------------------------------------------------------------
(* parse_comment_tags(comment).  [@\\] is either marker prefix; a tag       *)
(* marker is one token.  A description (.+?) is at least one token and     *)
(* runs lazily up to the next token that opens one of the lookahead's      *)
(* tags, or to the end of the comment.                                     *)

BriefMarkers   == {"@brief", "\\brief"}
ParamMarkers   == {"@param", "\\param"}
TparamMarkers  == {"@tparam", "\\tparam"}
ReturnMarkers  == {"@return", "\\return"}
ExampleMarkers == {"@example", "\\example"}
NoteMarkers    == {"@note", "\\note"}
SeeMarkers     == {"@see", "\\see"}
CodeMarkers    == {"@code", "\\code"}

\* (?=[@\\](?:param|tparam|return|example|note|see|code)|$)
BriefStops ==
  ParamMarkers \cup TparamMarkers \cup ReturnMarkers \cup ExampleMarkers
    \cup NoteMarkers \cup SeeMarkers \cup CodeMarkers

\* (?=[@\\](?:param|tparam|return|example)|$)
ParamStops ==
  ParamMarkers \cup TparamMarkers \cup ReturnMarkers \cup ExampleMarkers

\* (?=[@\\](?:param|tparam|example|note|see)|$)
ReturnStops ==
  ParamMarkers \cup TparamMarkers \cup ExampleMarkers \cup NoteMarkers
    \cup SeeMarkers

EmptyTags ==
  [brief |-> <<>>, param |-> <<>>, tparam |-> <<>>, return |-> <<>>,
   example |-> <<>>, note |-> <<>>, see |-> <<>>]

\* the last token of the lazy description that starts at token k
RECURSIVE DescEnd(_, _, _)
DescEnd(toks, k, stops) ==
  IF k >= Len(toks) \/ toks[k + 1] \in stops THEN k
  ELSE DescEnd(toks, k + 1, stops)

\* re.search of  marker \s+ (.+?) (?=stops|$)  from token p on: the index of
\* the marker of the first match, 0 if there is none
RECURSIVE SearchText(_, _, _)
SearchText(toks, p, markers) ==
  IF p + 1 > Len(toks) THEN 0
  ELSE IF toks[p] \in markers THEN p
  ELSE SearchText(toks, p + 1, markers)

\* brief_match / return_match: at most one entry, the first match
TextEntries(toks, markers, stops) ==
  LET i == SearchText(toks, 1, markers) IN
  IF i = 0 THEN <<>>
  ELSE << SubSeq(toks, i + 1, DescEnd(toks, i + 1, stops)) >>

\* re.search of  marker \s+ (\w+) \s+ (.+?) (?=stops|$)  from token p on
RECURSIVE SearchNamed(_, _, _)
SearchNamed(toks, p, markers) ==
  IF p + 2 > Len(toks) THEN 0
  ELSE IF toks[p] \in markers /\ IsWord(toks[p + 1]) THEN p
  ELSE SearchNamed(toks, p + 1, markers)

\* re.finditer for @param / @tparam, keeping only the last match
RECURSIVE NamedEntriesOverwrite(_, _, _, _)
NamedEntriesOverwrite(toks, p, markers, stops) ==
  LET i == SearchNamed(toks, p, markers) IN
  IF i = 0 THEN <<>>
  ELSE
    LET e    == DescEnd(toks, i + 2, stops)
        rest == NamedEntriesOverwrite(toks, e + 1, markers, stops)
    IN IF rest # <<>> THEN rest
       ELSE << [name |-> toks[i + 1], desc |-> SubSeq(toks, i + 2, e)] >>

\* re.finditer for @param / @tparam: every match, left to right, each
\* search resuming where the previous match ended
RECURSIVE NamedEntries(_, _, _, _)
NamedEntries(toks, p, markers, stops) ==
  LET i == SearchNamed(toks, p, markers) IN
  IF i = 0 THEN <<>>
  ELSE
    LET e == DescEnd(toks, i + 2, stops) IN
    << [name |-> toks[i + 1], desc |-> SubSeq(toks, i + 2, e)] >>
      \o NamedEntries(toks, e + 1, markers, stops)

parse_comment_tags(c) ==
  IF c = <<>> THEN EmptyTags
  ELSE
    LET toks == NoSpace(c) IN
    [brief   |-> TextEntries(toks, BriefMarkers, BriefStops),
     param   |-> NamedEntries(toks, 1, ParamMarkers, ParamStops),
     tparam  |-> NamedEntries(toks, 1, TparamMarkers, ParamStops),
     return  |-> TextEntries(toks, ReturnMarkers, ReturnStops),
     example |-> IF \E k \in 1..Len(toks) : toks[k] \in ExampleMarkers
                 THEN <<TRUE>> ELSE <<>>,
     note    |-> <<>>,
     see     |-> <<>>]

----------------------------------------------------------------------------
(* The rendered text: where each token of a file sits *)

\* content[:2000] in audit_file
PrefixLen == 2000
\* content[match.end():match.end()+50] in audit_file
FwdWindow == 50

Template == "template<typename T>"

\* the number of characters of a token
Width(t) ==
  CASE t = "PAD" -> PadWidth
    [] t \in {" ", "\n", "w", "a", "b", "*", "=", ";", "{", "}", "(", ")"} -> 1
    [] t \in {"//", "*/", "if"} -> 2
    [] t \in {"///", "/**", "int"} -> 3
    [] t \in {"Name", "void", "else", "auto", "bool", "@see"} -> 4
    [] t \in {"class", "@file", "@note", "@code"} -> 5
    [] t \in {"struct", "@brief", "@param", "return", "sizeof", "inline",
              "static", "size_t"} -> 6
    [] t \in {"concept", "@tparam", "@return"} -> 7
    [] t = "@example" -> 8
    [] t = "constexpr" -> 9
    [] t = Template -> 20
    [] OTHER -> 1

\* characters of line l before its k-th token (one space between tokens)
RECURSIVE TokOff(_, _)
TokOff(l, k) == IF k <= 1 THEN 0 ELSE TokOff(l, k - 1) + Width(l[k - 1]) + 1

\* len(line)
LineWidth(l) == IF l = <<>> THEN 0 ELSE TokOff(l, Len(l)) + Width(l[Len(l)])

\* characters of the file before its i-th line (one newline after each line)
RECURSIVE LineOff(_, _)
LineOff(c, i) ==
  IF i <= 1 THEN 0 ELSE LineOff(c, i - 1) + LineWidth(c[i - 1]) + 1

\* the tokens of lines i.. of the file in order, whitespace left out, each
\* with its line (1-based), its place in the line and its character offset
RECURSIVE FlatFrom(_, _)
FlatFrom(c, i) ==
  IF i > Len(c) THEN <<>>
  ELSE
    LET l    == c[i]
        base == LineOff(c, i)
        here == [k \in 1..Len(l) |->
                  [tok |-> l[k], line |-> i, k |-> k,
                   off |-> base + TokOff(l, k)]]
    IN SelectSeq(here, LAMBDA r : r.tok \notin Whitespace)
         \o FlatFrom(c, i + 1)

Flat(c) == FlatFrom(c, 1)

\* the first token at or after the start of line i: its index in the
\* token stream F, 0 if lines i.. hold none
FirstAt(F, i) ==
  LET S == {f \in 1..Len(F) : F[f].line >= i}
  IN IF S = {} THEN 0 ELSE CHOOSE f \in S : \A g \in S : f <= g

\* \w matches the first character of the token
StartsWithWordChar(t) == IsWord(t) \/ t = Template

----------------------------------------------------------------------------
(* audit_file: the file-level checks *)

FileMarkers == {"@file", "\\file"}

\* re.search(r'[@\\](?:brief|file)\s+\w', content) with no prefix cut
FileBriefAnywhere(F) ==
  \E f \in 1..(Len(F) - 1) :
    /\ F[f].tok \in BriefMarkers \cup FileMarkers
    /\ StartsWithWordChar(F[f + 1].tok)

\* re.search(r'[@\\](?:brief|file)\s+\w', content[:2000]): the match, up to
\* and including its \w, lies in the first PrefixLen characters
FileBrief(F) ==
  \E f \in 1..(Len(F) - 1) :
    /\ F[f].tok \in BriefMarkers \cup FileMarkers
    /\ StartsWithWordChar(F[f + 1].tok)
    /\ F[f + 1].off + 1 <= PrefixLen

\* re.search(r'[@\\]example', content)
HasExample(F) == \E f \in 1..Len(F) : F[f].tok \in ExampleMarkers

\* FileAudit(path=filepath)
NewAudit ==
  [has_file_brief |-> FALSE, has_examples |-> FALSE,
   function_count |-> 0, documented_functions |-> 0,
   class_count |-> 0, documented_classes |-> 0,
   concept_count |-> 0, documented_concepts |-> 0,
   issues |-> <<>>]

\* DocIssue(...)
DocIssue(line, issue_type, entity_name, message, severity) ==
  [line |-> line, issue_type |-> issue_type, entity_name |-> entity_name,
   message |-> message, severity |-> severity]

ReadErrorIssue ==
  DocIssue(0, "read_error", "", "Could not read file", "error")

MissingFileBriefIssue ==
  DocIssue(1, "missing_file_brief", "basename",
           "File lacks @file or @brief documentation", "warning")

\* the except branch without its return: the file-brief check still runs
read_failed_falls_through(a) ==
  [a EXCEPT !.issues = Append(Append(@, ReadErrorIssue), MissingFileBriefIssue)]

\* except Exception: audit.issues.append(...); return audit
read_failed(a) == [a EXCEPT !.issues = Append(@, ReadErrorIssue)]

\* the file-brief check over the whole text instead of its prefix
check_file_brief_whole_text(a, F) ==
  IF FileBriefAnywhere(F) THEN [a EXCEPT !.has_file_brief = TRUE]
  ELSE [a EXCEPT !.issues = Append(@, MissingFileBriefIssue)]

\* if re.search(...): audit.has_file_brief = True  else: issues.append(...)
check_file_brief(a, F) ==
  IF FileBrief(F) THEN [a EXCEPT !.has_file_brief = TRUE]
  ELSE [a EXCEPT !.issues = Append(@, MissingFileBriefIssue)]

\* if re.search(r'[@\\]example', content): audit.has_examples = True
check_examples(a, F) ==
  IF HasExample(F) THEN [a EXCEPT !.has_examples = TRUE] ELSE a

----------------------------------------------------------------------------
(* audit_file: the declaration matchers.  Each pattern starts with ^ and   *)
(* whitespace, so a match starts at the start of a line i and is decided   *)
(* by the tokens from there on; finditer takes the leftmost such line and  *)
(* resumes after the last token of the match.                              *)

\* a match: the name (group 1), the 1-based line of match.start(), and the
\* index in Flat(c) of the last token matched
NoMatch == [found |-> FALSE, name |-> "", line_num |-> 0, last |-> 0]

Match(name, i, last) ==
  [found |-> TRUE, name |-> name, line_num |-> i, last |-> last]

\* ^\s*template\s*<[^>]+>\s*concept\s+(\w+)\s*=
concept_match_at(F, i) ==
  LET f == FirstAt(F, i)
  IN IF /\ f # 0 /\ f + 3 <= Len(F)
        /\ F[f].tok = Template
        /\ F[f + 1].tok = "concept"
        /\ IsWord(F[f + 2].tok)
        /\ F[f + 3].tok = "="
     THEN Match(F[f + 2].tok, i, f + 3)
     ELSE NoMatch

\* ^\s*(?:template\s*<[^>]+>\s*)?\s*(?:class|struct)\s+(\w+)
class_match_at(F, i) ==
  LET f == FirstAt(F, i)
      g == IF f # 0 /\ F[f].tok = Template THEN f + 1 ELSE f
  IN IF /\ f # 0 /\ g + 1 <= Len(F)
        /\ F[g].tok \in {"class", "struct"}
        /\ IsWord(F[g + 1].tok)
     THEN Match(F[g + 1].tok, i, g + 1)
     ELSE NoMatch

Modifiers == {"inline", "static", "constexpr"}

\* ^(?:template\s*<[^>]+>\s*\n?)?\s*(?:inline\s+|static\s+|constexpr\s+)*
\* (?:auto|void|bool|int|size_t|[\w:]+(?:<[^>]*>)?)\s+(\w+)\s*\(
\* n is the name: modifiers, then a return type at n - 1, then "(" at n + 1
function_match_at(F, i) ==
  LET f == FirstAt(F, i)
      starts == IF f # 0 /\ F[f].tok = Template THEN {f, f + 1} ELSE {f}
      names == {n \in 1..(Len(F) - 1) :
                  /\ F[n + 1].tok = "("
                  /\ IsWord(F[n].tok)
                  /\ \E a \in starts :
                       /\ a <= n - 1
                       /\ StartsWithWordChar(F[n - 1].tok)
                       /\ \A j \in a..(n - 2) : F[j].tok \in Modifiers}
  IN IF f # 0 /\ names # {}
     THEN LET n == CHOOSE n \in names : \A k \in names : n <= k
          IN Match(F[n].tok, i, n + 1)
     ELSE NoMatch

match_at(kind, F, i) ==
  CASE kind = "concept"  -> concept_match_at(F, i)
    [] kind = "class"    -> class_match_at(F, i)
    [] kind = "function" -> function_match_at(F, i)

\* the next match of pattern.finditer(content) at or after line i of the n
\* lines of the file
RECURSIVE finditer(_, _, _, _)
finditer(kind, F, n, i) ==
  IF i > n THEN NoMatch
  ELSE LET m == match_at(kind, F, i) IN
       IF m.found THEN m ELSE finditer(kind, F, n, i + 1)

\* the line the next search starts at: the one after the match's last token
ResumeLine(F, m) == F[m.last].line + 1

\* the tokens of rest_of_line.split('\n')[0]: those after the match on its
\* last line whose character lies in content[match.end():match.end()+50]
RestOfLine(F, m) ==
  {f \in (m.last + 1)..Len(F) :
     /\ F[f].line = F[m.last].line
     /\ F[f].off - (F[m.last].off + Width(F[m.last].tok)) < FwdWindow}

\* ';' in rest_of_line.split('\n')[0] and '{' not in rest_of_line.split('\n')[0]
is_forward_declaration(F, m) ==
  /\ \E f \in RestOfLine(F, m) : F[f].tok = ";"
  /\ ~ \E f \in RestOfLine(F, m) : F[f].tok = "{"

SkippedNames ==
  {"if", "for", "while", "switch", "return", "sizeof", "alignof", "decltype"}

\* func_name in [...], or the line up to match.end() starts with // or /*
is_skipped_function(F, m) ==
  \/ m.name \in SkippedNames
  \/ FirstAt(F, m.line_num) # 0
       /\ F[FirstAt(F, m.line_num)].tok \in {"//", "///", "/*", "/**"}

----------------------------------------------------------------------------
(* audit_file: what one match does to the audit *)

HasBrief(r) == parse_comment_tags(r.text).brief # <<>>

found_concept_uncounted(a) == a

\* audit.concept_count += 1
found_concept(a) == [a EXCEPT !.concept_count = @ + 1]

\* audit.class_count += 1
found_class(a) == [a EXCEPT !.class_count = @ + 1]

\* audit.function_count += 1
found_function(a) == [a EXCEPT !.function_count = @ + 1]

\* the concept's issue put at the head of the list
judge_concept_prepending(a, c, m) ==
  LET r == extract_doxygen_comment(c, m.line_num - 1) IN
  IF r # None /\ HasBrief(r)
  THEN [a EXCEPT !.documented_concepts = @ + 1]
  ELSE [a EXCEPT !.issues =
          << DocIssue(m.line_num,
                      IF r # None THEN "missing_brief" ELSE "undocumented",
                      m.name, "Concept", "warning") >> \o @]

\* lines 271-290
judge_concept(a, c, m) ==
  LET r == extract_doxygen_comment(c, m.line_num - 1) IN
  IF r # None
  THEN IF HasBrief(r)
       THEN [a EXCEPT !.documented_concepts = @ + 1]
       ELSE [a EXCEPT !.issues =
               Append(@, DocIssue(m.line_num, "missing_brief", m.name,
                                  "Concept lacks @brief description",
                                  "warning"))]
  ELSE [a EXCEPT !.issues =
          Append(@, DocIssue(m.line_num, "undocumented", m.name,
                             "Concept has no documentation", "warning"))]

\* a class whose comment lacks a brief gets no Issue
judge_class_silent(a, c, m) ==
  LET r == extract_doxygen_comment(c, m.line_num - 1) IN
  IF r # None
  THEN IF HasBrief(r) THEN [a EXCEPT !.documented_classes = @ + 1] ELSE a
  ELSE [a EXCEPT !.issues =
          Append(@, DocIssue(m.line_num, "undocumented", m.name,
                             "Class has no documentation", "info"))]

\* lines 307-326
judge_class(a, c, m) ==
  LET r == extract_doxygen_comment(c, m.line_num - 1) IN
  IF r # None
  THEN IF HasBrief(r)
       THEN [a EXCEPT !.documented_classes = @ + 1]
       ELSE [a EXCEPT !.issues =
               Append(@, DocIssue(m.line_num, "missing_brief", m.name,
                                  "Class lacks @brief description", "info"))]
  ELSE [a EXCEPT !.issues =
          Append(@, DocIssue(m.line_num, "undocumented", m.name,
                             "Class has no documentation", "info"))]

\* an undocumented function reported like an undocumented class
judge_function_reporting(a, c, m) ==
  LET r == extract_doxygen_comment(c, m.line_num - 1) IN
  IF r # None /\ HasBrief(r)
  THEN [a EXCEPT !.documented_functions = @ + 1]
  ELSE [a EXCEPT !.issues =
          Append(@, DocIssue(m.line_num, "undocumented", m.name,
                             "Function has no documentation", "info"))]

\* lines 352-358
judge_function(a, c, m) ==
  LET r == extract_doxygen_comment(c, m.line_num - 1) IN
  IF r # None /\ HasBrief(r)
  THEN [a EXCEPT !.documented_functions = @ + 1]
  ELSE a

----------------------------------------------------------------------------
(* The comment locator on its own *)

LocLineSet ==
  { <<>>,                               \* an empty line
    <<" ">>,                            \* a line of whitespace
    <<"///", "w">>,                     \* /// w
    <<" ", "///", "w">>,                \*   /// w      (indented)
    <<"///", "w", "*/">>,               \* /// w */
    <<"/**", "w">>,                     \* /** w
    <<"/**", "w", "*/">>,               \* /** w */
    <<"w", "*/">>,                      \* w */
    <<"w", ";">> }                      \* w;

SeqsUpTo(S, n) == UNION {[1..k -> S] : k \in 0..n}

IdleAudit ==
  /\ content = <<>> /\ readable = FALSE /\ pc = "idle"
  /\ audit = NewAudit /\ cur = NoMatch /\ pos = 0

IdleReport == audits = <<>> /\ rpc = "idle" /\ ridx = 0 /\ report = "none"

IdleLoc == lines = <<>> /\ end_line = 0 /\ lpc = "idle" /\ located = None

IdleTags == comment = <<>> /\ tpc = "idle" /\ tags = EmptyTags

IdleParams == declaration = <<>> /\ fpc = "idle" /\ params = <<>>

InitLocator ==
  /\ lines \in SeqsUpTo(LocLineSet, MaxLocLines)
  /\ end_line \in 0..Len(lines)
  /\ lpc = "call"
  /\ located = None
  /\ IdleAudit /\ IdleReport /\ IdleTags /\ IdleParams

Locate ==
  /\ lpc = "call"
  /\ located' = extract_doxygen_comment(lines, end_line)
  /\ lpc' = "returned"
  /\ UNCHANGED <<lines, end_line, auditVars, reportVars, tagVars, paramVars>>

NextLocator == Locate

SpecLocator == InitLocator /\ [][NextLocator]_vars

----------------------------------------------------------------------------
(* The tag parser on its own *)

CommentTokens ==
  {"@brief", "@param", "@tparam", "@return", "@example", "@note", "a", "b"}

InitTags ==
  /\ \E k \in 0..MaxComment : comment \in [1..k -> CommentTokens]
  /\ tpc = "call"
  /\ tags = EmptyTags
  /\ IdleAudit /\ IdleReport /\ IdleLoc /\ IdleParams

Parse ==
  /\ tpc = "call"
  /\ tags' = parse_comment_tags(comment)
  /\ tpc' = "returned"
  /\ UNCHANGED <<comment, auditVars, reportVars, locVars, paramVars>>

NextTags == Parse

SpecTags == InitTags /\ [][NextTags]_vars

----------------------------------------------------------------------------
(* audit_file, step by step.  pc is the position in the function.          *)

AuditLineSet ==
  { <<>>,                                          \* (empty line)
    <<"///", "@brief", "w">>,                      \* /// @brief w
    <<"///", "w">>,                                \* /// w
    <<"/**", "@file", "w", "*/">>,                 \* /** @file w */
    <<"//", "PAD">>,                               \* // ..........
    <<Template>>,                                  \* template<typename T>
    <<"concept", "Name", "=", "w", ";">>,          \* concept Name = w ;
    <<Template, "concept", "Name", "=", "w", ";">>,
    <<"class", "Name", "{">>,                      \* class Name {
    <<"class", "Name", ";">>,                      \* class Name ;
    <<"struct", "Name", ";", "//", "{">>,          \* struct Name ; // {
    <<"class", "Name", "PAD", ";">>,               \* class Name ........ ;
    <<"void", "Name", "(", ")", ";">>,             \* void Name ( ) ;
    <<"else", "if", "(", "w", ")">> }              \* else if ( w )

\* content.split('\n') of a readable file has at least one line
InitAudit ==
  /\ \/ readable = TRUE
        /\ content \in UNION {[1..k -> AuditLineSet] : k \in 1..MaxLines}
     \/ readable = FALSE /\ content = <<>>
  /\ pc = "open"
  /\ audit = NewAudit
  /\ cur = NoMatch
  /\ pos = 0
  /\ IdleReport /\ IdleLoc /\ IdleTags /\ IdleParams

\* the text of the file being audited
Text == Flat(content)

AuditStep(newpc, newaudit, newcur, newpos) ==
  /\ pc' = newpc
  /\ audit' = newaudit
  /\ cur' = newcur
  /\ pos' = newpos
  /\ UNCHANGED <<content, readable, reportVars, locVars, tagVars,
               paramVars>>

\* the match the running finditer loop yields next
NextConcept  == finditer("concept", Text, Len(content), pos)
NextClass    == finditer("class", Text, Len(content), pos)
NextFunction == finditer("function", Text, Len(content), pos)

\* open(filepath) or f.read() raises
ReadFail ==
  /\ pc = "open" /\ ~readable
  /\ AuditStep("done", read_failed(audit), cur, pos)

ReadOk ==
  /\ pc = "open" /\ readable
  /\ AuditStep("file_brief", audit, cur, pos)

CheckFileBrief ==
  /\ pc = "file_brief"
  /\ AuditStep("examples", check_file_brief(audit, Text), cur, pos)

CheckExamples ==
  /\ pc = "examples"
  /\ AuditStep("concepts", check_examples(audit, Text), cur, 1)

\* for match in concept_pattern.finditer(content): audit.concept_count += 1
ConceptFound ==
  /\ pc = "concepts"
  /\ NextConcept.found
  /\ AuditStep("concept_judge", found_concept(audit), NextConcept, pos)

ConceptJudge ==
  /\ pc = "concept_judge"
  /\ AuditStep("concepts", judge_concept(audit, content, cur), cur,
               ResumeLine(Text, cur))

ConceptsDone ==
  /\ pc = "concepts"
  /\ ~NextConcept.found
  /\ AuditStep("classes", audit, cur, 1)

\* for match in class_pattern.finditer(content): ... continue
ClassForward ==
  /\ pc = "classes"
  /\ NextClass.found
  /\ is_forward_declaration(Text, NextClass)
  /\ AuditStep("classes", audit, NextClass, ResumeLine(Text, NextClass))

ClassFound ==
  /\ pc = "classes"
  /\ NextClass.found
  /\ ~is_forward_declaration(Text, NextClass)
  /\ AuditStep("class_judge", found_class(audit), NextClass, pos)

ClassJudge ==
  /\ pc = "class_judge"
  /\ AuditStep("classes", judge_class(audit, content, cur), cur,
               ResumeLine(Text, cur))

ClassesDone ==
  /\ pc = "classes"
  /\ ~NextClass.found
  /\ AuditStep("functions", audit, cur, 1)

\* for match in standalone_func_pattern.finditer(content): ... continue
FunctionSkipped ==
  /\ pc = "functions"
  /\ NextFunction.found
  /\ is_skipped_function(Text, NextFunction)
  /\ AuditStep("functions", audit, NextFunction,
               ResumeLine(Text, NextFunction))

FunctionFound ==
  /\ pc = "functions"
  /\ NextFunction.found
  /\ ~is_skipped_function(Text, NextFunction)
  /\ AuditStep("function_judge", found_function(audit), NextFunction, pos)

FunctionJudge ==
  /\ pc = "function_judge"
  /\ AuditStep("functions", judge_function(audit, content, cur), cur,
               ResumeLine(Text, cur))

\* return audit
FunctionsDone ==
  /\ pc = "functions"
  /\ ~NextFunction.found
  /\ AuditStep("done", audit, cur, pos)

Next ==
  \/ ReadFail \/ ReadOk \/ CheckFileBrief \/ CheckExamples
  \/ ConceptFound \/ ConceptJudge \/ ConceptsDone
  \/ ClassForward \/ ClassFound \/ ClassJudge \/ ClassesDone
  \/ FunctionSkipped \/ FunctionFound \/ FunctionJudge \/ FunctionsDone

Spec == InitAudit /\ [][Next]_vars

----------------------------------------------------------------------------
(* audit_file as a function of the file, and generate_report             *)

\* one of the three loops of audit_file, from line i on
RECURSIVE audit_loop(_, _, _, _, _)
audit_loop(kind, a, c, F, i) ==
  LET m == finditer(kind, F, Len(c), i) IN
  IF ~m.found THEN a
  ELSE
    LET after ==
          CASE kind = "concept" -> judge_concept(found_concept(a), c, m)
            [] kind = "class" ->
                 IF is_forward_declaration(F, m) THEN a
                 ELSE judge_class(found_class(a), c, m)
            [] kind = "function" ->
                 IF is_skipped_function(F, m) THEN a
                 ELSE judge_function(found_function(a), c, m)
    IN audit_loop(kind, after, c, F, ResumeLine(F, m))

\* audit_file(filepath), for a file that reads as c or cannot be read
audit_file(canread, c) ==
  IF ~canread THEN read_failed(NewAudit)
  ELSE
    LET F  == Flat(c)
        a0 == check_examples(check_file_brief(NewAudit, F), F)
        a1 == audit_loop("concept", a0, c, F, 1)
        a2 == audit_loop("class", a1, c, F, 1)
    IN audit_loop("function", a2, c, F, 1)

\* the audits main() hands to generate_report: those of these files, and
\* of a file that cannot be read
ReportFiles ==
  { << <<"///", "@brief", "w">>, <<"class", "Name", "{">> >>,
    << <<"/**", "@file", "w", "*/">>, <<"class", "Name", "{">>,
       <<"class", "Name", "{">> >>,
    << <<"/**", "@file", "w", "*/">>, <<"class", "Name", "{">>,
       <<"class", "Name", "{">>, <<"class", "Name", "{">> >>,
    << <<"class", "Name", "{">> >>,
    << <<"//", "PAD">>, <<"///", "@brief", "w">>, <<"class", "Name", "{">> >>,
    << <<"//", "PAD">>, <<"///", "@brief", "w">>,
       <<Template, "concept", "Name", "=", "w", ";">> >>,
    << <<"///", "@example", "w">>, <<"void", "Name", "(", ")", ";">> >> }

ReportAudits ==
  {audit_file(TRUE, c) : c \in ReportFiles} \cup {audit_file(FALSE, <<>>)}

\* sum(...) over the audits
RECURSIVE Sum(_)
Sum(ns) == IF ns = <<>> THEN 0 ELSE Head(ns) + Sum(Tail(ns))

\* sum(a.<field> for a in audits)
Total(as, field) == Sum([i \in 1..Len(as) |-> as[i][field]])

\* sum(1 for a in audits if a.<field>)
Count(as, field) == Sum([i \in 1..Len(as) |-> IF as[i][field] THEN 1 ELSE 0])

EmptyReport ==
  [total_files |-> 0, files_with_brief |-> 0, files_with_examples |-> 0,
   pct_brief |-> 0, pct_examples |-> 0,
   total_concepts |-> 0, documented_concepts |-> 0,
   total_classes |-> 0, documented_classes |-> 0,
   total_functions |-> 0, documented_functions |-> 0,
   well_documented |-> <<>>, needs_work |-> <<>>, undocumented |-> <<>>]

\* the summary statistics, percentages left out
summary(r, as) ==
  [r EXCEPT
     !.total_files = Len(as),
     !.files_with_brief = Count(as, "has_file_brief"),
     !.files_with_examples = Count(as, "has_examples"),
     !.total_concepts = Total(as, "concept_count"),
     !.documented_concepts = Total(as, "documented_concepts"),
     !.total_classes = Total(as, "class_count"),
     !.documented_classes = Total(as, "documented_classes"),
     !.total_functions = Total(as, "function_count"),
     !.documented_functions = Total(as, "documented_functions")]

\* 100*files_with_brief//total_files, 100*files_with_examples//total_files
percentages(r) ==
  [r EXCEPT
     !.pct_brief = (100 * r.files_with_brief) \div r.total_files,
     !.pct_examples = (100 * r.files_with_examples) \div r.total_files]

\* well documented only below two issues
classify_strict(r, a, path) ==
  IF a.has_file_brief /\ Len(a.issues) < 2
  THEN [r EXCEPT !.well_documented = Append(@, path)]
  ELSE IF a.has_file_brief \/ a.documented_concepts > 0
            \/ a.documented_classes > 0
  THEN [r EXCEPT !.needs_work = Append(@, path)]
  ELSE [r EXCEPT !.undocumented = Append(@, path)]

\* the body of  for audit in audits:  (the path of an audit is its place in
\* the list: the headers main() audits are distinct files)
classify(r, a, path) ==
  IF a.has_file_brief /\ Len(a.issues) <= 2
  THEN [r EXCEPT !.well_documented = Append(@, path)]
  ELSE IF a.has_file_brief \/ a.documented_concepts > 0
            \/ a.documented_classes > 0
  THEN [r EXCEPT !.needs_work = Append(@, path)]
  ELSE [r EXCEPT !.undocumented = Append(@, path)]

InitReport ==
  /\ audits \in SeqsUpTo(ReportAudits, MaxFiles)
  /\ rpc = "summary"
  /\ ridx = 0
  /\ report = EmptyReport
  /\ IdleAudit /\ IdleLoc /\ IdleTags /\ IdleParams

ReportStep(newpc, newidx, newreport) ==
  /\ rpc' = newpc
  /\ ridx' = newidx
  /\ report' = newreport
  /\ UNCHANGED <<audits, auditVars, locVars, tagVars, paramVars>>

\* the summary block, with at least one audit
Summarise ==
  /\ rpc = "summary"
  /\ Len(audits) # 0
  /\ ReportStep("classify", 1, percentages(summary(report, audits)))

\* the summary block with no audit: 100*0//0 raises ZeroDivisionError
SummariseRaises ==
  /\ rpc = "summary"
  /\ Len(audits) = 0
  /\ ReportStep("ZeroDivisionError", 0, summary(report, audits))

Classify ==
  /\ rpc = "classify"
  /\ ridx <= Len(audits)
  /\ ReportStep("classify", ridx + 1, classify(report, audits[ridx], ridx))

\* return '\n'.join(lines)
ReportDone ==
  /\ rpc = "classify"
  /\ ridx > Len(audits)
  /\ ReportStep("done", ridx, report)

NextReport == Summarise \/ SummariseRaises \/ Classify \/ ReportDone

SpecReport == InitReport /\ [][NextReport]_vars

----------------------------------------------------------------------------
(* extract_function_params(declaration) and extract_param_name.  A          *)
(* declaration is a sequence of tokens: a token is one character of         *)
(* punctuation, one space, or a whole name, and two names never stand       *)
(* next to each other without a token between them.                         *)

TypeLikeNames ==
  {"const", "auto", "void", "int", "size_t", "bool", "float", "double"}

\* names made of word characters only
Identifiers == WordTokens \cup TypeLikeNames \cup {"foo", "v", "n"}

\* names with a '::' in them, and the run of word characters each ends with
QualifiedNames == {"std::vector", "std::pair"}

LastWord(t) ==
  CASE t = "std::vector" -> "vector"
    [] t = "std::pair" -> "pair"
    [] OTHER -> t

IsName(t) == t \in Identifiers \cup QualifiedNames

\* extract_param_name returns None
NoName == ""

\* declaration.find('('), 1-based; 0 when there is none
paren_start(d) ==
  LET S == {k \in 1..Len(d) : d[k] = "("}
  IN IF S = {} THEN 0 ELSE CHOOSE k \in S : \A j \in S : k <= j

\* the first loop: the characters after the first '(' up to the ')' that
\* brings depth back to 0, or to the end of the declaration
RECURSIVE param_content(_, _, _, _)
param_content(d, i, depth, acc) ==
  IF i > Len(d) \/ depth <= 0 THEN acc
  ELSE LET nd == IF d[i] = "(" THEN depth + 1
                 ELSE IF d[i] = ")" THEN depth - 1 ELSE depth
       IN param_content(d, i + 1, nd,
                        IF nd > 0 THEN Append(acc, d[i]) ELSE acc)

\* re.sub(r'\s*=\s*.+$', '', param_decl): from the whitespace before the
\* first '=' that has a character after it, to the end
remove_default(p) ==
  LET S == {k \in 1..Len(p) : p[k] = "="}
      e == IF S = {} THEN 0 ELSE CHOOSE k \in S : \A j \in S : k <= j
  IN IF e = 0 \/ e = Len(p) THEN p ELSE RStrip(SubSeq(p, 1, e - 1))

\* the name a parameter declaration ends with, unless it is type-like
extract_param_name(param_decl) ==
  IF param_decl = <<>> THEN NoName
  ELSE LET q == Strip(remove_default(param_decl))
       IN IF q # <<>> /\ IsName(q[Len(q)])
               /\ LastWord(q[Len(q)]) \notin TypeLikeNames
          THEN LastWord(q[Len(q)]) ELSE NoName

\* name = extract_param_name(current_param.strip()); if name: params.append
add_param(out, current_param) ==
  LET name == extract_param_name(Strip(current_param))
  IN IF name # NoName THEN Append(out, name) ELSE out

\* the second loop and the handling of the last parameter: one counter for
\* '<' '(' (up) and '>' ')' (down), a split at each ',' met with counter 0
RECURSIVE split_params(_, _, _, _, _)
split_params(pcont, k, depth, current_param, out) ==
  IF k > Len(pcont)
  THEN IF Strip(current_param) # <<>> THEN add_param(out, current_param)
       ELSE out
  ELSE LET char == pcont[k] IN
    IF char \in {"<", "("}
    THEN split_params(pcont, k + 1, depth + 1, Append(current_param, char), out)
    ELSE IF char \in {">", ")"}
    THEN split_params(pcont, k + 1, depth - 1, Append(current_param, char), out)
    ELSE IF char = "," /\ depth = 0
    THEN split_params(pcont, k + 1, depth, <<>>, add_param(out, current_param))
    ELSE split_params(pcont, k + 1, depth, Append(current_param, char), out)

extract_function_params(d) ==
  IF paren_start(d) = 0 THEN <<>>
  ELSE split_params(param_content(d, paren_start(d) + 1, 1, <<>>),
                    1, 0, <<>>, <<>>)

----------------------------------------------------------------------------
(* extract_function_params on its own *)

DeclTokens == {"(", ")", "<", ">", ",", " ", "=", "v", "int"}

\* foo(std::vector<std::pair<int,int>> v, int n)
ExampleDecl ==
  <<"foo", "(", "std::vector", "<", "std::pair", "<", "int", ",", "int",
    ">", ">", " ", "v", ",", " ", "int", " ", "n", ")">>

\* no two names side by side: they would read as one name
WellTokenised(d) ==
  \A k \in 1..(Len(d) - 1) : ~(IsName(d[k]) /\ IsName(d[k + 1]))

InitParams ==
  /\ \/ \E k \in 0..MaxDecl : declaration \in [1..k -> DeclTokens]
     \/ declaration = ExampleDecl
  /\ WellTokenised(declaration)
  /\ fpc = "call"
  /\ params = <<>>
  /\ IdleAudit /\ IdleReport /\ IdleLoc /\ IdleTags

ExtractParams ==
  /\ fpc = "call"
  /\ params' = extract_function_params(declaration)
  /\ fpc' = "returned"
  /\ UNCHANGED <<declaration, auditVars, reportVars, locVars, tagVars>>

NextParams == ExtractParams

SpecParams == InitParams /\ [][NextParams]_vars

----------------------------------------------------------------------------
(* Claims *)

\* C1: in every state of the audit pass, of a readable file or not, each
\* documented counter is at most its count.
C1_DocumentedAtMostCount ==
  /\ audit.documented_concepts <= audit.concept_count
  /\ audit.documented_classes <= audit.class_count
  /\ audit.documented_functions <= audit.function_count

\* an audit has returned with a documented class and an undocumented one
C1_Witness ==
  /\ pc = "done"
  /\ audit.documented_classes >= 1
  /\ audit.class_count > audit.documented_classes

RuleBucket(a) ==
  IF a.has_file_brief /\ Len(a.issues) <= 2 THEN "well_documented"
  ELSE IF a.has_file_brief \/ a.documented_concepts > 0
            \/ a.documented_classes > 0 THEN "needs_work"
  ELSE "undocumented"

Buckets == {"well_documented", "needs_work", "undocumented"}

\* C2: every audit classified so far is in exactly one of the three lists,
\* once, and in the one the priority rule names; the lists hold nothing
\* else; when the report returns, every audit is classified.
C2_Classification ==
  rpc \in {"classify", "done"} =>
    /\ \A i \in 1..(ridx - 1) :
         \A b \in Buckets :
           Cardinality({k \in 1..Len(report[b]) : report[b][k] = i})
             = IF b = RuleBucket(audits[i]) THEN 1 ELSE 0
    /\ \A b \in Buckets : Range(report[b]) \subseteq 1..(ridx - 1)
    /\ (rpc = "done" => ridx - 1 = Len(audits))

\* a report has returned with a file in each of the three lists
C2_Witness ==
  /\ rpc = "done"
  /\ \A b \in Buckets : report[b] # <<>>

\* C3 (as stated): with no audits, generate_report attempts no division by
\* the zero total and completes normally.
C3_EmptyCorpusCompletes ==
  Len(audits) = 0 => rpc # "ZeroDivisionError"

\* C4: for a file that cannot be read, audit_file returns (it does not
\* raise) an audit whose only Issue is a read_error of severity error, with
\* both flags false and all six counts 0.
C4_ReadFailure ==
  ~readable =>
    /\ pc \in {"idle", "open", "done"}
    /\ pc = "done" =>
         /\ Len(audit.issues) = 1
         /\ audit.issues[1].issue_type = "read_error"
         /\ audit.issues[1].severity = "error"
         /\ ~audit.has_file_brief /\ ~audit.has_examples
         /\ audit.function_count = 0 /\ audit.documented_functions = 0
         /\ audit.class_count = 0 /\ audit.documented_classes = 0
         /\ audit.concept_count = 0 /\ audit.documented_concepts = 0

\* the audit of an unreadable file has returned
C4_Witness == pc = "done" /\ ~readable /\ audit.issues # <<>>

\* lines s..e (0-based) all start, after leading whitespace, with '///'
IsDocLine(l) == StartsWithDoc(Strip(l))

IsMaximalDocRun(ls, s, e) ==
  /\ 0 <= s /\ s <= e /\ e < Len(ls)
  /\ \A k \in s..e : IsDocLine(ls[k + 1])
  /\ (s = 0 \/ ~IsDocLine(ls[s]))
  /\ (e + 1 = Len(ls) \/ ~IsDocLine(ls[e + 2]))

\* C5: queried at the line immediately following a maximal run s..e of
\* '///' lines, the locator returns exactly lines s..e joined by newlines,
\* with start line s and end line e.
C5_RoundTrip ==
  lpc = "returned" =>
    \A s \in 0..Len(lines) : \A e \in 0..Len(lines) :
      (IsMaximalDocRun(lines, s, e) /\ end_line = e + 1) =>
        located = [text  |-> Join(SubSeq(lines, s + 1, e + 1)),
                   start |-> s, end |-> e]

\* a run of at least two '///' lines, one of them indented, that does not
\* start at the top of the file, has been looked up and returned
C5_Witness ==
  /\ lpc = "returned"
  /\ \E s \in 1..Len(lines) : \E e \in 1..Len(lines) :
       /\ s < e
       /\ IsMaximalDocRun(lines, s, e)
       /\ end_line = e + 1
       /\ \E k \in s..e : Head(lines[k + 1]) = " "
       /\ located.start = s /\ located.end = e

\* the audit with its two function counters blanked
OtherThanFunctions(a) ==
  [a EXCEPT !.function_count = 0, !.documented_functions = 0]

\* a step taken in the function-matching phase leaves the issues as they
\* are, and changes nothing of the audit but the two function counters
FunctionPhaseStep ==
  pc \in {"functions", "function_judge"} =>
    (/\ audit'.issues = audit.issues
     /\ OtherThanFunctions(audit') = OtherThanFunctions(audit))

\* C6: every step of the function-matching phase leaves the issues
\* sequence identical, whether the matched function is documented, lacks a
\* brief or has no comment; only function_count and documented_functions
\* change in that phase.
C6_FunctionsAddNoIssue == [][FunctionPhaseStep]_vars

\* an audit has returned that counted a function it found no brief for
C6_Witness ==
  /\ pc = "done"
  /\ audit.function_count > audit.documented_functions

\* a brief or file marker lies within the first PrefixLen characters
PrefixHasMarker ==
  \E f \in 1..Len(Text) :
    /\ Text[f].tok \in BriefMarkers \cup FileMarkers
    /\ Text[f].off + Width(Text[f].tok) <= PrefixLen

MissingFileBriefCount ==
  Cardinality({k \in 1..Len(audit.issues) :
                 audit.issues[k].issue_type = "missing_file_brief"})

\* C7: once the file-brief check of a readable file has run, a file with no
\* brief/file marker in its first 2000 characters has has_file_brief false
\* and one missing_file_brief Issue, at line 1 with severity warning; and
\* the number of missing_file_brief Issues is 1 when has_file_brief is
\* false and 0 when it is true.
C7_FileBrief ==
  (readable /\ pc \notin {"idle", "open", "file_brief"}) =>
    /\ ~PrefixHasMarker =>
         /\ ~audit.has_file_brief
         /\ \E k \in 1..Len(audit.issues) :
              /\ audit.issues[k].issue_type = "missing_file_brief"
              /\ audit.issues[k].line = 1
              /\ audit.issues[k].severity = "warning"
    /\ MissingFileBriefCount = IF audit.has_file_brief THEN 0 ELSE 1

\* the audit of a file whose only brief lies beyond the first 2000
\* characters has returned, without a file brief
C7_Witness ==
  /\ pc = "done" /\ readable
  /\ ~PrefixHasMarker
  /\ FileBriefAnywhere(Text)
  /\ ~audit.has_file_brief
  /\ MissingFileBriefCount = 1

IsEntityIssue(k, severity) ==
  /\ audit.issues[k].issue_type \in {"missing_brief", "undocumented"}
  /\ audit.issues[k].severity = severity

\* C8: the missing_file_brief Issue, if any, is the first; every concept
\* Issue (warning) precedes every class Issue (info); and the concept
\* Issues, and the class Issues, are in the order of their lines.
C8_DiscoveryOrder ==
  \A j \in 1..Len(audit.issues) :
    /\ audit.issues[j].issue_type = "missing_file_brief" => j = 1
    /\ \A k \in 1..Len(audit.issues) :
         /\ (IsEntityIssue(j, "warning") /\ IsEntityIssue(k, "info")) => j < k
         /\ (j < k /\ IsEntityIssue(j, "warning") /\ IsEntityIssue(k, "warning"))
              => audit.issues[j].line < audit.issues[k].line
         /\ (j < k /\ IsEntityIssue(j, "info") /\ IsEntityIssue(k, "info"))
              => audit.issues[j].line < audit.issues[k].line

\* an audit has returned with the missing_file_brief Issue, then a concept
\* Issue, then the Issue of a class that stands earlier in the file
C8_Witness ==
  /\ pc = "done"
  /\ Len(audit.issues) >= 3
  /\ audit.issues[1].issue_type = "missing_file_brief"
  /\ \E j \in 1..Len(audit.issues) : \E k \in 1..Len(audit.issues) :
       /\ IsEntityIssue(j, "warning") /\ IsEntityIssue(k, "info")
       /\ audit.issues[k].line < audit.issues[j].line

\* on the rest of the match's line, a ';' stands before any '{'
SemicolonBeforeBrace(F, m) ==
  \E f \in (m.last + 1)..Len(F) :
    /\ F[f].line = F[m.last].line
    /\ F[f].tok = ";"
    /\ \A g \in (m.last + 1)..(f - 1) : F[g].tok # "{"

\* the step taken at a class/struct match discards it when a ';' stands
\* before any '{' on the rest of its line, and counts it otherwise
ClassMatchStep ==
  (pc = "classes" /\ NextClass.found) =>
    IF SemicolonBeforeBrace(Text, NextClass)
    THEN audit' = audit /\ pc' = "classes"
    ELSE audit'.class_count = audit.class_count + 1

\* C10 (as stated): a class/struct match is discarded, with no count and no
\* Issue, exactly when a ';' stands before any '{' on the rest of its line;
\* any other match is counted.
C10_ForwardDeclarations == [][ClassMatchStep]_vars

\* the tokens of the parsed comment, and where a tag's marker occurs in it
CommentToks == NoSpace(comment)

Occurrences(markers) ==
  {i \in 1..Len(CommentToks) : CommentToks[i] \in markers}

\* a well-formed @brief / @return: the marker and a description that starts
\* with a plain word
WellFormedText(i) ==
  i + 1 <= Len(CommentToks) /\ IsWord(CommentToks[i + 1])

\* a well-formed @param / @tparam: the marker, a name, and a description
\* that starts with a plain word
WellFormedNamed(i) ==
  /\ i + 2 <= Len(CommentToks)
  /\ IsWord(CommentToks[i + 1])
  /\ IsWord(CommentToks[i + 2])

\* the position (1-based) of occurrence i among the occurrences
Rank(occ, i) == Cardinality({k \in occ : k <= i})

\* the list has one entry per occurrence, in the order of the occurrences
OnePerOccurrence(list, occ) ==
  /\ Len(list) = Cardinality(occ)
  /\ \A i \in occ :
       /\ list[Rank(occ, i)].name = CommentToks[i + 1]
       /\ Head(list[Rank(occ, i)].desc) = CommentToks[i + 2]

\* the list has one entry, taken at the first occurrence, if the tag occurs
\* at all, and is empty otherwise
FirstOccurrenceOnly(list, occ) ==
  /\ Len(list) = IF occ = {} THEN 0 ELSE 1
  /\ \A i \in occ :
       (\A k \in occ : i <= k) => Head(list[1]) = CommentToks[i + 1]

RECURSIVE split_at_top_level(_, _, _, _, _)
split_at_top_level(pcont, k, depth, current_param, out) ==
  IF k > Len(pcont)
  THEN IF Strip(current_param) # <<>> THEN add_param(out, current_param)
       ELSE out
  ELSE LET char == pcont[k] IN
    IF char \in {"<", "("}
    THEN split_at_top_level(pcont, k + 1, depth + 1,
                            Append(current_param, char), out)
    ELSE IF char \in {">", ")"}
    THEN split_at_top_level(pcont, k + 1,
                            IF depth > 0 THEN depth - 1 ELSE 0,
                            Append(current_param, char), out)
    ELSE IF char = "," /\ depth = 0
    THEN split_at_top_level(pcont, k + 1, depth, <<>>,
                            add_param(out, current_param))
    ELSE split_at_top_level(pcont, k + 1, depth,
                            Append(current_param, char), out)

\* C11 (as stated): the text between the first '(' and its matching ')' is
\* split at every comma of nesting depth zero and at no comma nested in
\* '<'...'>' or '('...')', and each fragment contributes the name it ends
\* with unless that name is type-like.
C11_TopLevelCommas ==
  (fpc = "returned" /\ paren_start(declaration) # 0) =>
    params = split_at_top_level(
               param_content(declaration, paren_start(declaration) + 1,
                             1, <<>>),
               1, 0, <<>>, <<>>)

\* the declaration foo(std::vector<std::pair<int,int>> v, int n) has been
\* taken apart into v and n
C11_Example ==
  fpc = "returned" /\ declaration = ExampleDecl /\ params = <<"v", "n">>

\* the non-blank lines before line end_line, and the nearest of them
NonBlankBefore ==
  {k \in 0..(end_line - 1) : Strip(lines[k + 1]) # <<>>}

NearestNonBlank ==
  CHOOSE k \in NonBlankBefore : \A j \in NonBlankBefore : j <= k

\* lines s..e are the '///' run that ends at e
IsDocRunEndingAt(s, e) ==
  /\ 0 <= s /\ s <= e
  /\ \A k \in s..e : IsDocLine(lines[k + 1])
  /\ (s = 0 \/ ~IsDocLine(lines[s]))

\* the lines at or before e that contain '/**'
OpenersUpTo(e) == {k \in 0..e : Contains(lines[k + 1], "/**")}

\* lines s..e returned as the comment
Span(s, e) ==
  [text |-> Join(SubSeq(lines, s + 1, e + 1)), start |-> s, end |-> e]

\* C12: the nearest non-blank line L before the declaration decides.  No
\* such line: no comment.  L starts with '///': the '///' run ending at L,
\* even when L holds '*/'.  Otherwise, L holds '*/': the span from the
\* nearest line at or before L that holds '/**' through L, no comment if
\* there is none.  Anything else: no comment.  A returned comment has
\* start <= end = L.
C12_NearestLineDecides ==
  lpc = "returned" =>
    IF NonBlankBefore = {} THEN located = None
    ELSE
      /\ IF IsDocLine(lines[NearestNonBlank + 1])
         THEN \E s \in 0..NearestNonBlank :
                /\ IsDocRunEndingAt(s, NearestNonBlank)
                /\ located = Span(s, NearestNonBlank)
         ELSE IF Contains(lines[NearestNonBlank + 1], "*/")
                   /\ OpenersUpTo(NearestNonBlank) # {}
         THEN \E s \in OpenersUpTo(NearestNonBlank) :
                /\ \A j \in OpenersUpTo(NearestNonBlank) : j <= s
                /\ located = Span(s, NearestNonBlank)
         ELSE located = None
      /\ located # None =>
           /\ located.start <= located.end
           /\ located.end = NearestNonBlank

\* a block comment of several lines, with a second '/**' further up and a
\* blank line between it and the declaration, has been returned
C12_Witness ==
  /\ lpc = "returned"
  /\ located # None
  /\ located.start < located.end
  /\ located.end < end_line - 1
  /\ ~IsDocLine(lines[located.end + 1])
  /\ \E k \in 0..(located.start - 1) : Contains(lines[k + 1], "/**")

\* the Issues raised for concepts and classes
EntityIssueCount ==
  Cardinality({k \in 1..Len(audit.issues) :
                 audit.issues[k].issue_type \in {"missing_brief",
                                                 "undocumented"}})

\* C13: in the audit of a readable file, between two matches and at the
\* return, the Issues of type missing_brief or undocumented number
\* (concept_count - documented_concepts) + (class_count -
\* documented_classes), and issues holds these plus one more exactly when
\* has_file_brief is false.
C13_Accounting ==
  (readable /\ pc \in {"concepts", "classes", "functions", "done"}) =>
    /\ EntityIssueCount
         = (audit.concept_count - audit.documented_concepts)
             + (audit.class_count - audit.documented_classes)
    /\ Len(audit.issues)
         = EntityIssueCount + (IF audit.has_file_brief THEN 0 ELSE 1)

\* an audit has returned with a class whose comment lacks a brief, a class
\* with no comment, and no file brief
C13_Witness ==
  /\ pc = "done" /\ readable
  /\ ~audit.has_file_brief
  /\ \E j \in 1..Len(audit.issues) : audit.issues[j].issue_type = "missing_brief"
  /\ \E k \in 1..Len(audit.issues) : audit.issues[k].issue_type = "undocumented"
  /\ audit.class_count = 2

====
